---- MODULE Spec2Model ----
(***************************************************************************)
(* Model of the client-side real-time coordination layer found in          *)
(* src/routes/+layout.svelte: the sandbox runner (executePythonAsWorker),  *)
(* the socket set-up with its heartbeat timer (setupSocket), the tab       *)
(* coordinator (handleVisibilityChange / bc.onmessage), the session guard  *)
(* (checkTokenExpiry), the tool invoker (executeTool) and the event        *)
(* router (chatEventHandler, channelEventHandler).                         *)
(*                                                                         *)
(* Every component has its own specification over the same variables:     *)
(*   SpecSandbox  one closure of executePythonAsWorker per call            *)
(*   SpecSocket   connect / disconnect handlers and the heartbeat timer    *)
(*   SpecTabs     several tabs of one origin sharing the BroadcastChannel  *)
(*   SpecSession  checkTokenExpiry and the sign-out it performs            *)
(*   SpecRouter   the 'events' handler of one tab, with executeTool        *)
(*   SpecChannels the 'channel-events' handler of one tab                  *)
(*   SpecEvents   both handlers of one tab                                 *)
(***************************************************************************)
EXTENDS Integers, Sequences, FiniteSets, TLC

VARIABLES
    \* SandboxRunner
    runs,               \* one record per executePythonAsWorker call (its closure)
    \* RealtimeConnection
    connected,          \* _socket.connected
    heartbeatInterval,  \* the module-level `let heartbeatInterval` (0: null)
    timers,             \* ids of the interval timers that are live in the page
    nextTimer,          \* the id the next setInterval returns
    connectCalls,       \* 'connect' handlers suspended at `await getVersion`
    reloadPending,      \* a 'connect' handler is at `await unregisterServiceWorkers()`
    WEBUI_VERSION,      \* store
    WEBUI_DEPLOYMENT_ID,\* store
    emitted,            \* frames emitted on the socket, counted by event name
    connects,           \* 'connect' events so far
    reloads,            \* location.reload() calls so far
    lastConnect,        \* the last 'connect' handler that ran on from getVersion:
                        \* what it read and did
    \* localStorage
    token,              \* localStorage.token is set
    \* TabCoordinator, one entry per tab of the origin
    tabOpen,            \* the tab holds a mounted document
    visible,            \* document.visibilityState === 'visible'
    isLastActiveTab,    \* store, one per document
    inbox,              \* 'active' messages queued at the tab's BroadcastChannel
    expiring,           \* a checkTokenExpiry call of the tab is at `await userSignOut()`
    claimOrder,         \* the open tabs that claimed, in the order of their last claim
    claims,             \* claims so far
    \* SessionGuard, of one page
    user,               \* store: [set, expires_at]
    signOutCalls,       \* checkTokenExpiry calls suspended at `await userSignOut()`
    href,               \* location.href
    page,               \* "loaded", or "unloading" once location.href was assigned
    lastCheck,          \* the last checkTokenExpiry call: what it read and did
    signedOutBy,        \* the call whose sign-out unloaded the page
    \* EventRouter and ToolInvoker, of one tab
    handler,            \* the chatEventHandler call of the frame being handled
    handled,            \* 'events' and 'channel-events' frames delivered so far
    channelHandler,     \* the channelEventHandler call of the frame being handled
    chats,              \* store: the cached chat list
    tags,               \* store: the cached tag list
    channels            \* store: the cached channel list

sandboxVars == <<runs>>
socketVars  == <<connected, heartbeatInterval, timers, nextTimer, connectCalls,
                 reloadPending, WEBUI_VERSION, WEBUI_DEPLOYMENT_ID,
                 emitted, connects, reloads, lastConnect>>
storageVars == <<token>>
tabVars     == <<tabOpen, visible, isLastActiveTab, inbox, expiring, claimOrder,
                 claims>>
sessionVars == <<user, signOutCalls, href, page, lastCheck, signedOutBy>>
cacheVars   == <<chats, tags, channels>>
routerVars  == <<handler, handled, channelHandler, cacheVars>>
vars == <<sandboxVars, socketVars, storageVars, tabVars, sessionVars, routerVars>>

\* JavaScript null / undefined.
Null == "null"

\* JavaScript truthiness of the values the model uses (null and '' are falsy).
Truthy(v) == v # Null /\ v # ""

(***************************************************************************)
(* SandboxRunner: executePythonAsWorker                                    *)
(***************************************************************************)

\* Calls of executePythonAsWorker in one behaviour.
MaxRuns == 1
\* Events (messages and error events) one worker raises.
MaxWorkerEvents == 2

TimeLimitExceeded == "Execution Time Limit Exceeded"

\* A bigint as the worker may post it (structured clone keeps it a bigint).
BigInt7 == "7n"

\* The replacer of JSON.stringify: (_k, v) => typeof v === 'bigint' ? v.toString() : v
Replacer(v) == IF v = BigInt7 THEN "7" ELSE v

\* JSON.parse(JSON.stringify({ stdout, stderr, result }, replacer))
Payload(r) ==
    [stdout |-> Replacer(r.stdout), stderr |-> Replacer(r.stderr),
     result |-> Replacer(r.result)]

\* The data of a worker result message, { id, stdout?, stderr?, result? }.
WorkerData ==
    { [stdout |-> "out", stderr |-> Null,  result |-> Null],
      [stdout |-> Null,  stderr |-> "err", result |-> Null],
      [stdout |-> "",    stderr |-> Null,  result |-> BigInt7],
      [stdout |-> "out", stderr |-> Null,  result |-> "res"] }

\* if (cb) cb(JSON.parse(JSON.stringify(...)))
CallCb(r) == IF r.cb THEN [r EXCEPT !.cbLog = Append(@, Payload(r))] ELSE r

\* The synchronous part of executePythonAsWorker: the closure's variables, the
\* worker created and messaged, the deadline timer armed.
NewRun(cb) ==
    [cb |-> cb, executing |-> TRUE, stdout |-> Null, stderr |-> Null,
     result |-> Null, pyodideWorker |-> "running", deadline |-> "armed",
     cbLog |-> <<>>, first |-> "none", posted |-> 0]

\* A setTimeout callback that does not test `executing`.
OnDeadlineUnguarded(r) ==
    CallCb([r EXCEPT !.executing = FALSE,
                     !.stderr = TimeLimitExceeded,
                     !.pyodideWorker = "terminated",
                     !.deadline = "fired",
                     !.first = IF @ = "none" THEN "deadline" ELSE @])

\* The setTimeout callback.
OnDeadline(r) ==
    IF r.executing
    THEN CallCb([r EXCEPT !.executing = FALSE,
                          !.stderr = TimeLimitExceeded,
                          !.pyodideWorker = "terminated",
                          !.deadline = "fired",
                          !.first = IF @ = "none" THEN "deadline" ELSE @])
    ELSE [r EXCEPT !.deadline = "fired"]

\* pyodideWorker.onmessage
OnMessage(r, data) ==
    LET r1 == [r EXCEPT
                 !.stdout = IF Truthy(data.stdout) THEN data.stdout ELSE @,
                 !.stderr = IF Truthy(data.stderr) THEN data.stderr ELSE @,
                 !.result = IF Truthy(data.result) THEN data.result ELSE @,
                 !.posted = @ + 1,
                 !.first = IF @ = "none" THEN "message" ELSE @]
    IN  [CallCb(r1) EXCEPT !.executing = FALSE]

\* pyodideWorker.onerror
OnError(r) ==
    [CallCb([r EXCEPT !.posted = @ + 1,
                      !.first = IF @ = "none" THEN "error" ELSE @])
       EXCEPT !.executing = FALSE]

\* executePythonAsWorker(id, code, cb), cb null or a function.
ExecutePython(cb) ==
    /\ Len(runs) < MaxRuns
    /\ runs' = Append(runs, NewRun(cb))
    /\ UNCHANGED <<socketVars, storageVars, tabVars, sessionVars, routerVars>>

\* The 60000 ms timer of run i expires.
DeadlineExpires(i) ==
    /\ runs[i].deadline = "armed"
    /\ runs' = [runs EXCEPT ![i] = OnDeadline(@)]
    /\ UNCHANGED <<socketVars, storageVars, tabVars, sessionVars, routerVars>>

\* The worker of run i posts a result message. A terminated worker posts
\* nothing: terminate() discards its pending messages.
WorkerMessage(i, data) ==
    /\ runs[i].pyodideWorker = "running"
    /\ runs[i].posted < MaxWorkerEvents
    /\ runs' = [runs EXCEPT ![i] = OnMessage(@, data)]
    /\ UNCHANGED <<socketVars, storageVars, tabVars, sessionVars, routerVars>>

\* The worker of run i raises an error event (it stays alive).
WorkerError(i) ==
    /\ runs[i].pyodideWorker = "running"
    /\ runs[i].posted < MaxWorkerEvents
    /\ runs' = [runs EXCEPT ![i] = OnError(@)]
    /\ UNCHANGED <<socketVars, storageVars, tabVars, sessionVars, routerVars>>

SandboxInit == runs = <<>>

(***************************************************************************)
(* RealtimeConnection: setupSocket                                         *)
(***************************************************************************)

\* 'connect' events in one behaviour.
MaxConnects == 3
\* Heartbeat frames counted.
MaxHeartbeats == 2

\* What getVersion resolves to: null, or { version, deployment_id }.
VersionResults ==
    [version : {Null, "v1", "v2"}, deployment_id : {Null, "d1", "d2"}]

\* No 'connect' handler has run on from getVersion yet.
NoConnect ==
    [made |-> FALSE, WEBUI_VERSION |-> Null, WEBUI_DEPLOYMENT_ID |-> Null,
     version |-> Null, deployment_id |-> Null, reload |-> FALSE,
     token |-> FALSE, userJoin |-> 0]

\* The state of a freshly loaded page (the socket is created, not connected).
SocketInit ==
    /\ connected = FALSE
    /\ heartbeatInterval = 0
    /\ timers = {}
    /\ nextTimer = 1
    /\ connectCalls = 0
    /\ reloadPending = FALSE
    /\ WEBUI_VERSION = Null
    /\ WEBUI_DEPLOYMENT_ID = Null
    /\ emitted = [heartbeat |-> 0, userJoin |-> 0]
    /\ connects = 0
    /\ reloads = 0
    /\ lastConnect = NoConnect

\* The reload condition without its outer test.
VersionMismatchUnguarded(res) ==
    \/ WEBUI_VERSION # Null /\ res.version # WEBUI_VERSION
    \/ WEBUI_DEPLOYMENT_ID # Null /\ res.deployment_id # WEBUI_DEPLOYMENT_ID

\* A 'user-join' frame whether or not a token is stored.
UserJoinAlways(tok) == 1

\* if (localStorage.getItem('token')) _socket.emit('user-join', ...): the
\* frames emitted.
UserJoin(tok) == IF tok THEN 1 ELSE 0

\* The reload condition of the 'connect' handler.
VersionMismatch(res) ==
    /\ res.version # Null \/ res.deployment_id # Null
    /\ \/ WEBUI_VERSION # Null /\ res.version # WEBUI_VERSION
       \/ WEBUI_DEPLOYMENT_ID # Null /\ res.deployment_id # WEBUI_DEPLOYMENT_ID

\* heartbeatInterval = setInterval(..., 30000): a new timer, whatever the
\* variable held before.
StartHeartbeat ==
    /\ timers' = timers \cup {nextTimer}
    /\ heartbeatInterval' = nextTimer
    /\ nextTimer' = nextTimer + 1

\* The socket connects: the 'connect' handler runs up to `await getVersion`.
SocketConnect ==
    /\ ~connected
    /\ connects < MaxConnects
    /\ connected' = TRUE
    /\ connects' = connects + 1
    /\ connectCalls' = connectCalls + 1
    /\ UNCHANGED <<heartbeatInterval, timers, nextTimer, reloadPending,
                   WEBUI_VERSION, WEBUI_DEPLOYMENT_ID, token, emitted, reloads,
                   lastConnect>>
    /\ UNCHANGED <<sandboxVars, tabVars, sessionVars, routerVars>>

\* getVersion resolves for one suspended 'connect' handler, which runs on: to
\* the await before location.reload(), or to its end.
VersionFetched(res) ==
    /\ connectCalls > 0
    /\ connectCalls' = connectCalls - 1
    /\ IF VersionMismatch(res)
       THEN /\ reloadPending' = TRUE
            /\ UNCHANGED <<heartbeatInterval, timers, nextTimer, WEBUI_VERSION,
                           WEBUI_DEPLOYMENT_ID, emitted>>
       ELSE /\ StartHeartbeat
            /\ WEBUI_DEPLOYMENT_ID' =
                 IF res.deployment_id # Null THEN res.deployment_id
                 ELSE WEBUI_DEPLOYMENT_ID
            /\ WEBUI_VERSION' =
                 IF res.version # Null THEN res.version ELSE WEBUI_VERSION
            /\ emitted' = [emitted EXCEPT !.userJoin = @ + UserJoin(token)]
            /\ UNCHANGED reloadPending
    /\ lastConnect' =
         [made |-> TRUE, WEBUI_VERSION |-> WEBUI_VERSION,
          WEBUI_DEPLOYMENT_ID |-> WEBUI_DEPLOYMENT_ID,
          version |-> res.version, deployment_id |-> res.deployment_id,
          reload |-> VersionMismatch(res), token |-> token,
          userJoin |-> emitted'.userJoin - emitted.userJoin]
    /\ UNCHANGED <<connected, token, connects, reloads>>
    /\ UNCHANGED <<sandboxVars, tabVars, sessionVars, routerVars>>

\* location.reload(): the page, its timers, its handlers and its stores are
\* gone; the new page starts as SocketInit does. localStorage survives.
PageReload ==
    /\ reloadPending
    /\ connected' = FALSE
    /\ heartbeatInterval' = 0
    /\ timers' = {}
    /\ connectCalls' = 0
    /\ reloadPending' = FALSE
    /\ WEBUI_VERSION' = Null
    /\ WEBUI_DEPLOYMENT_ID' = Null
    /\ reloads' = reloads + 1
    /\ UNCHANGED <<nextTimer, token, emitted, connects, lastConnect>>
    /\ UNCHANGED <<sandboxVars, tabVars, sessionVars, routerVars>>

\* The 'disconnect' handler.
SocketDisconnect ==
    /\ connected
    /\ connected' = FALSE
    /\ IF heartbeatInterval # 0
       THEN /\ timers' = timers \ {heartbeatInterval}
            /\ heartbeatInterval' = 0
       ELSE UNCHANGED <<timers, heartbeatInterval>>
    /\ UNCHANGED <<nextTimer, connectCalls, reloadPending, WEBUI_VERSION,
                   WEBUI_DEPLOYMENT_ID, token, emitted, connects, reloads,
                   lastConnect>>
    /\ UNCHANGED <<sandboxVars, tabVars, sessionVars, routerVars>>

\* One live interval timer fires: the setInterval callback.
HeartbeatTick(id) ==
    /\ id \in timers
    /\ emitted.heartbeat < MaxHeartbeats
    /\ emitted' = IF connected THEN [emitted EXCEPT !.heartbeat = @ + 1]
                  ELSE emitted
    /\ UNCHANGED <<connected, heartbeatInterval, timers, nextTimer, connectCalls,
                   reloadPending, WEBUI_VERSION, WEBUI_DEPLOYMENT_ID, token,
                   connects, reloads, lastConnect>>
    /\ UNCHANGED <<sandboxVars, tabVars, sessionVars, routerVars>>

(***************************************************************************)
(* SessionGuard: checkTokenExpiry                                          *)
(***************************************************************************)

\* $user?.expires_at of a session without an expiry (null, undefined).
NoExpiry == 0
\* Seconds before the expiry at which the guard signs out.
ExpiryLead == 60
\* Math.floor(Date.now() / 1000) as the guard may read it.
Clock == {1000, 1060, 1061}
\* expires_at of the sessions the backend issues (epoch seconds, or none).
Expiries == {NoExpiry, 1030, 1120, 1121}
\* What userSignOut resolves to: its redirect_url, or none.
SignOutResults == {Null, "/oauth/logout"}
\* Suspended sign-outs of one page.
MaxSignOutCalls == 2

\* The guard without its lead: signs out only at or after the expiry.
SignOutDueNoLead(exp, now) == exp # NoExpiry /\ now >= exp

\* exp && now >= exp - 60
SignOutDue(exp, now) == exp # NoExpiry /\ now >= exp - ExpiryLead

\* $user?.expires_at
UserExpiry(u) == IF u.set THEN u.expires_at ELSE NoExpiry

\* res?.redirect_url ?? '/auth'
RedirectTarget(res) == IF res # Null THEN res ELSE "/auth"

NoUser == [set |-> FALSE, expires_at |-> NoExpiry]
NoCheck == [made |-> FALSE, exp |-> NoExpiry, now |-> 0, signOut |-> FALSE]

SessionInit ==
    /\ user = NoUser
    /\ signOutCalls = <<>>
    /\ href = "/"
    /\ page = "loaded"
    /\ lastCheck = NoCheck
    /\ signedOutBy = NoCheck

\* user.set(sessionUser): the session of the stored credential, or a sign-in.
SessionLoaded(exp) ==
    /\ page = "loaded"
    /\ ~user.set
    /\ user' = [set |-> TRUE, expires_at |-> exp]
    /\ token' = TRUE
    /\ UNCHANGED <<signOutCalls, href, page, lastCheck, signedOutBy>>
    /\ UNCHANGED <<sandboxVars, socketVars, tabVars, routerVars>>

\* checkTokenExpiry(), from the 15000 ms interval or from a visibility gain,
\* up to `await userSignOut()`.
CheckTokenExpiry(now) ==
    /\ page = "loaded"
    /\ Len(signOutCalls) < MaxSignOutCalls
    /\ LET exp == UserExpiry(user)
           call == [made |-> TRUE, exp |-> exp, now |-> now,
                    signOut |-> SignOutDue(exp, now)]
       IN  /\ lastCheck' = call
           /\ signOutCalls' = IF call.signOut THEN Append(signOutCalls, call)
                              ELSE signOutCalls
    /\ UNCHANGED <<user, href, page, signedOutBy, token>>
    /\ UNCHANGED <<sandboxVars, socketVars, tabVars, routerVars>>

\* userSignOut resolves for the oldest suspended call: user.set(null),
\* localStorage.removeItem('token'), location.href = ...
UserSignOutResolves(res) ==
    /\ page = "loaded"
    /\ signOutCalls # <<>>
    /\ user' = NoUser
    /\ token' = FALSE
    /\ href' = RedirectTarget(res)
    /\ page' = "unloading"
    /\ signedOutBy' = Head(signOutCalls)
    /\ signOutCalls' = Tail(signOutCalls)
    /\ UNCHANGED lastCheck
    /\ UNCHANGED <<sandboxVars, socketVars, tabVars, routerVars>>

\* The navigation completes: a new page, with no session yet.
PageLoaded ==
    /\ page = "unloading"
    /\ page' = "loaded"
    /\ user' = NoUser
    /\ signOutCalls' = <<>>
    /\ lastCheck' = NoCheck
    /\ signedOutBy' = NoCheck
    /\ UNCHANGED <<href, token>>
    /\ UNCHANGED <<sandboxVars, socketVars, tabVars, routerVars>>

(***************************************************************************)
(* TabCoordinator: handleVisibilityChange, bc.onmessage                    *)
(***************************************************************************)

\* Tabs of the origin.
NumTabs == 2
\* Claims of active-tab status in one behaviour.
MaxClaims == 3

Tabs == 1..NumTabs

\* The value the isLastActiveTab store starts with in a new document.
InitialActiveFlag == FALSE

Without(seq, t) == SelectSeq(seq, LAMBDA x : x # t)

\* A claim that is not broadcast.
RecipientsNone(t) == {}

\* The documents bc.postMessage of tab t reaches: every other open one.
Recipients(t) == {u \in Tabs : u # t /\ tabOpen[u]}

\* A receiver that keeps its flag.
OnBroadcastKeep(flag, data) == flag

\* bc.onmessage: if (event.data === 'active') isLastActiveTab.set(false)
OnBroadcast(flag, data) == IF data = "active" THEN FALSE ELSE flag

TabInit ==
    /\ tabOpen = [t \in Tabs |-> FALSE]
    /\ visible = [t \in Tabs |-> FALSE]
    /\ isLastActiveTab = [t \in Tabs |-> FALSE]
    /\ inbox = [t \in Tabs |-> 0]
    /\ expiring = [t \in Tabs |-> FALSE]
    /\ claimOrder = <<>>
    /\ claims = 0

\* handleVisibilityChange() in tab t whose document is (now) visible or not;
\* `due` is what its checkTokenExpiry() call decides.
HandleVisibilityChange(t, vis, due) ==
    IF vis
    THEN /\ claims < MaxClaims
         /\ isLastActiveTab' = [isLastActiveTab EXCEPT ![t] = TRUE]
         /\ inbox' = [u \in Tabs |->
                        IF u \in Recipients(t) THEN inbox[u] + 1 ELSE inbox[u]]
         /\ expiring' = [expiring EXCEPT ![t] = @ \/ due]
         /\ claimOrder' = Append(Without(claimOrder, t), t)
         /\ claims' = claims + 1
    ELSE UNCHANGED <<isLastActiveTab, inbox, expiring, claimOrder, claims>>

\* A document is loaded in tab t and mounted: bc.onmessage is set and
\* handleVisibilityChange() runs once. No session is loaded yet, so its
\* checkTokenExpiry() call finds no expiry.
OpenTab(t, vis) ==
    /\ ~tabOpen[t]
    /\ tabOpen' = [tabOpen EXCEPT ![t] = TRUE]
    /\ visible' = [visible EXCEPT ![t] = vis]
    /\ IF vis
       THEN HandleVisibilityChange(t, TRUE, SignOutDue(UserExpiry(NoUser), 0))
       ELSE /\ isLastActiveTab' = [isLastActiveTab EXCEPT ![t] = InitialActiveFlag]
            /\ UNCHANGED <<inbox, expiring, claimOrder, claims>>
    /\ UNCHANGED <<sandboxVars, socketVars, storageVars, sessionVars, routerVars>>

\* A 'visibilitychange' event in tab t, whose session has expiry exp (or none)
\* when the clock reads now.
VisibilityChange(t, exp, now) ==
    /\ tabOpen[t]
    /\ visible' = [visible EXCEPT ![t] = ~@]
    /\ HandleVisibilityChange(t, ~visible[t], SignOutDue(exp, now))
    /\ UNCHANGED tabOpen
    /\ UNCHANGED <<sandboxVars, socketVars, storageVars, sessionVars, routerVars>>

\* An 'active' message is delivered to tab t: bc.onmessage.
DeliverActive(t) ==
    /\ tabOpen[t]
    /\ inbox[t] > 0
    /\ inbox' = [inbox EXCEPT ![t] = @ - 1]
    /\ isLastActiveTab' = [isLastActiveTab EXCEPT ![t] = OnBroadcast(@, "active")]
    /\ UNCHANGED <<tabOpen, visible, expiring, claimOrder, claims>>
    /\ UNCHANGED <<sandboxVars, socketVars, storageVars, sessionVars, routerVars>>

\* The sign-out of tab t completes: the credential is removed and
\* location.href is assigned, which unloads the document with its store, its
\* BroadcastChannel and the messages queued at it.
SignOutRedirect(t) ==
    /\ tabOpen[t]
    /\ expiring[t]
    /\ token' = FALSE
    /\ tabOpen' = [tabOpen EXCEPT ![t] = FALSE]
    /\ visible' = [visible EXCEPT ![t] = FALSE]
    /\ isLastActiveTab' = [isLastActiveTab EXCEPT ![t] = FALSE]
    /\ inbox' = [inbox EXCEPT ![t] = 0]
    /\ expiring' = [expiring EXCEPT ![t] = FALSE]
    /\ claimOrder' = Without(claimOrder, t)
    /\ UNCHANGED claims
    /\ UNCHANGED <<sandboxVars, socketVars, sessionVars, routerVars>>

(***************************************************************************)
(* EventRouter: chatEventHandler, and ToolInvoker: executeTool             *)
(*                                                                         *)
(* The stores the handler reads ($chatId, $temporaryChatEnabled,           *)
(* $isLastActiveTab, $settings) are written by components outside this     *)
(* file, at any time. What the handler reads from them in one synchronous  *)
(* stretch is an input of that step, and the handler record keeps what was *)
(* read. Frames are taken one at a time: a handler shares nothing with the *)
(* handler of another frame but these stores.                              *)
(***************************************************************************)

\* 'events' frames delivered in one behaviour.
MaxFrames == 1
\* reader.read() calls of one stream that resolve with a chunk.
MaxChunks == 2
\* Non-blank lines in one chunk.
MaxLines == 2

\* $socket.id of this connection, and the session id of another connection.
SocketId == "sid1"
SessionIds == {SocketId, "sid2"}

\* event.chat_id, and the values of $chatId ('' while no chat is open).
ChatIds == {"c1", "c2"}
OpenChatIds == {"", "c1"}

\* event.data.data.done: true, false, or no such field.
DoneValues == {"true", "false", "absent"}

\* data.server?.url of an execute:tool frame.
ServerUrls == {"http://a", "http://x", Null}

\* The 'events' frames: { chat_id, data: { type, data } } and whether the frame
\* came with an acknowledgment callback.
Events ==
    [type : {"chat:completion"}, chat_id : ChatIds, session_id : SessionIds,
     done : DoneValues, url : {Null}, stream : {FALSE}, cb : {FALSE}]
    \cup
    [type : {"chat:title", "chat:tags", "chat:message"}, chat_id : ChatIds,
     session_id : SessionIds, done : {"absent"}, url : {Null},
     stream : {FALSE}, cb : {FALSE}]
    \cup
    [type : {"execute:python"}, chat_id : ChatIds, session_id : SessionIds,
     done : {"absent"}, url : {Null}, stream : {FALSE}, cb : BOOLEAN]
    \cup
    [type : {"execute:tool"}, chat_id : ChatIds, session_id : SessionIds,
     done : {"absent"}, url : ServerUrls, stream : {FALSE}, cb : BOOLEAN]
    \cup
    [type : {"request:chat:completion"}, chat_id : ChatIds,
     session_id : SessionIds, done : {"absent"}, url : {Null},
     stream : BOOLEAN, cb : BOOLEAN]

NoEvent ==
    [type |-> Null, chat_id |-> Null, session_id |-> Null, done |-> "absent",
     url |-> Null, stream |-> FALSE, cb |-> FALSE]

\* The entries of $settings.toolServers: one server, with each auth_type.
ToolServers ==
    {[url |-> "http://a", auth_type |-> a, key |-> "key-a"] :
        a \in {Null, "bearer", "session", "none"}}

NoToolServer == [url |-> Null, auth_type |-> Null, key |-> Null]

\* $settings.directConnections: absent, or the three parallel arrays with an
\* entry at model.urlIdx whose config has a prefix_id or none.
DirectConnections ==
    {[configured |-> FALSE, prefix_id |-> Null],
     [configured |-> TRUE,  prefix_id |-> Null],
     [configured |-> TRUE,  prefix_id |-> "p"]}

\* $settings ({} for toolServers: the field is absent or an empty array).
Settings ==
    [notificationSoundAlways : BOOLEAN, notificationEnabled : BOOLEAN,
     toolServers : {{}} \cup {{t} : t \in ToolServers},
     directConnections : DirectConnections]

\* One reading of the stores.
Stores ==
    [chatId : OpenChatIds, temporaryChatEnabled : BOOLEAN,
     isLastActiveTab : BOOLEAN, settings : Settings]

\* What `await window.electronAPI.send({ type: 'window:isFocused' })` gives:
\* nothing, or { isFocused }.
BridgeAnswers == {"null", "isFocused:true", "isFocused:false"}

\* data?.done, read as a condition.
IsDoneAlways(e) == TRUE

IsDone(e) == e.done = "true"

\* The condition of line 237, without its temporary-chat conjunct.
GatedNoTemp(chat_id, chatId, temporaryChatEnabled, isFocused) ==
    chat_id # chatId \/ isFocused

\* (event.chat_id !== $chatId && !$temporaryChatEnabled) || isFocused
Gated(chat_id, chatId, temporaryChatEnabled, isFocused) ==
    (chat_id # chatId /\ ~temporaryChatEnabled) \/ isFocused

\* A lookup that takes any configured server.
FindAnyToolServer(servers, url) ==
    IF servers # {} THEN CHOOSE t \in servers : TRUE ELSE NoToolServer

\* $settings?.toolServers?.find((server) => server.url === data.server?.url)
FindToolServer(servers, url) ==
    IF \E t \in servers : t.url = url
    THEN CHOOSE t \in servers : t.url = url
    ELSE NoToolServer

\* The credential executeTool passes on: the server's key for 'bearer' (the
\* default), localStorage.token for 'session', null otherwise.
ToolServerToken(toolServer, tok) ==
    LET auth_type == IF toolServer.auth_type # Null THEN toolServer.auth_type
                     ELSE "bearer"
    IN  IF auth_type = "bearer" THEN toolServer.key
        ELSE IF auth_type = "session"
             THEN (IF tok THEN "session-token" ELSE Null)
             ELSE Null

\* form_data.model, as its parts between the dots.
ModelName == <<"p", "gpt">>

\* form_data.model.replace(`${API_CONFIG.prefix_id}.`, '') under
\* if (API_CONFIG?.prefix_id)
StripPrefix(model, prefix_id) ==
    IF prefix_id # Null /\ model # <<>> /\ Head(model) = prefix_id
    THEN Tail(model)
    ELSE model

ToolServerNotFound == "error: Tool Server Not Found"
DoneMarker == "done: true"

\* The stores a notification reads, before it has read them.
NotRead ==
    [read |-> FALSE, isLastActiveTab |-> FALSE,
     notificationSoundAlways |-> FALSE, notificationEnabled |-> FALSE]

\* No chatEventHandler call yet.
IdleHandler ==
    [pc |-> "idle", event |-> NoEvent,
     visibilityState |-> "visible", bridge |-> "absent", isFocused |-> FALSE,
     chatId |-> "", temporaryChatEnabled |-> FALSE, branch |-> "none",
     notify |-> NotRead, sound |-> 0, osNotification |-> 0, toast |-> 0,
     getChatList |-> 0, getAllTags |-> 0, chatsSet |-> 0, tagsSet |-> 0,
     refetch |-> "none", cached |-> "none",
     pythonRuns |-> 0,
     toolCalls |-> 0, toolServers |-> {}, toolServer |-> NoToolServer,
     toolToken |-> Null, forwarded |-> 0,
     directConnections |-> [configured |-> FALSE, prefix_id |-> Null],
     proxied |-> 0, forwardedModel |-> <<>>, chunks |-> 0,
     acks |-> <<>>, frames |-> <<>>, threw |-> FALSE]

\* if (cb) cb(payload)
CallbackIfSet(h, payload) ==
    IF h.event.cb THEN [h EXCEPT !.acks = Append(@, payload)] ELSE h

\* The finally block without its emit.
FinallyNothing(h) == [h EXCEPT !.pc = "done"]

\* finally { $socket?.emit(channel, { done: true }) }
Finally(h) == [h EXCEPT !.frames = Append(@, DoneMarker), !.pc = "done"]

\* catch (error) { cb(error) } and then the finally block. With no callback
\* the call in the catch block throws, and the handler's promise rejects once
\* the finally block has run.
Catch(h, error) ==
    Finally(IF h.event.cb THEN [h EXCEPT !.acks = Append(@, error)]
            ELSE [h EXCEPT !.threw = TRUE])

\* cb(payload) in the try block, then `next`; with no callback the call
\* throws a TypeError, which the catch block takes.
TryCb(h, payload, next) ==
    IF h.event.cb THEN [h EXCEPT !.acks = Append(@, payload), !.pc = next]
    ELSE Catch(h, "TypeError")

\* A Notification whenever notifications are enabled, in any tab.
OsNotificationsAnyTab(flag, enabled) ==
    IF enabled THEN 1 ELSE 0

\* if ($isLastActiveTab && $settings?.notificationEnabled) new Notification(...):
\* the notifications raised (lines 242-244 and 336-338).
OsNotifications(flag, enabled) ==
    IF flag /\ enabled THEN 1 ELSE 0

\* Lines 238-256: the direct-event dispatch.
DirectDispatch(h, s) ==
    IF h.event.type = "chat:completion" /\ IsDone(h.event)
    THEN [h EXCEPT
            !.notify = [read |-> TRUE,
                        isLastActiveTab |-> s.isLastActiveTab,
                        notificationSoundAlways |->
                            s.settings.notificationSoundAlways,
                        notificationEnabled |-> s.settings.notificationEnabled],
            !.sound = IF s.settings.notificationSoundAlways THEN @ + 1 ELSE @,
            !.osNotification =
                @ + OsNotifications(s.isLastActiveTab,
                                    s.settings.notificationEnabled),
            !.toast = @ + 1,
            !.pc = "done"]
    ELSE IF h.event.type = "chat:title"
    THEN [h EXCEPT !.getChatList = @ + 1, !.pc = "getChatList"]
    ELSE IF h.event.type = "chat:tags"
    THEN [h EXCEPT !.getAllTags = @ + 1, !.pc = "getAllTags"]
    ELSE [h EXCEPT !.pc = "done"]

\* executeTool(data, cb), up to its await.
ExecuteTool(h, s, tok) ==
    LET toolServer == FindToolServer(s.settings.toolServers, h.event.url)
        h1 == [h EXCEPT !.toolCalls = @ + 1,
                        !.toolServers = s.settings.toolServers]
    IN  IF toolServer # NoToolServer
        THEN [h1 EXCEPT !.toolServer = toolServer,
                        !.toolToken = ToolServerToken(toolServer, tok),
                        !.forwarded = @ + 1,
                        !.pc = "executeToolServer"]
        ELSE CallbackIfSet([h1 EXCEPT !.pc = "done"], ToolServerNotFound)

\* Lines 263-276: the request:chat:completion branch, up to its first await.
\* `$settings?.directConnections ?? {}` is an object without the arrays when
\* the setting is absent, and indexing OPENAI_API_BASE_URLS of it throws.
RequestChatCompletion(h, s) ==
    LET h1 == [h EXCEPT !.directConnections = s.settings.directConnections]
    IN  IF ~s.settings.directConnections.configured
        THEN Catch(h1, "TypeError")
        ELSE [h1 EXCEPT
                !.forwardedModel =
                    StripPrefix(ModelName,
                                s.settings.directConnections.prefix_id),
                !.proxied = @ + 1,
                !.pc = "chatCompletion"]

\* A session test every frame passes.
AnySession(e) == TRUE

\* data?.session_id === $socket.id (line 257)
OwnSession(e) == e.session_id = SocketId

\* Lines 258-299: the command dispatch.
CommandDispatch(h, s, tok) ==
    IF h.event.type = "execute:python"
    THEN [h EXCEPT !.pythonRuns = @ + 1, !.pc = "done"]
    ELSE IF h.event.type = "execute:tool"
    THEN ExecuteTool(h, s, tok)
    ELSE IF h.event.type = "request:chat:completion"
    THEN RequestChatCompletion(h, s)
    ELSE [h EXCEPT !.pc = "done"]

\* Lines 234-300: the handler from `await tick()` to its next await.
Dispatch(h, s, tok) ==
    LET h1 == [h EXCEPT !.chatId = s.chatId,
                        !.temporaryChatEnabled = s.temporaryChatEnabled]
    IN  IF Gated(h.event.chat_id, s.chatId, s.temporaryChatEnabled,
                 h.isFocused)
        THEN DirectDispatch([h1 EXCEPT !.branch = "direct"], s)
        ELSE IF OwnSession(h.event)
        THEN CommandDispatch([h1 EXCEPT !.branch = "command"], s, tok)
        ELSE [h1 EXCEPT !.branch = "ignored", !.pc = "done"]

\* What getChatList / getAllTags / getChannels give: a list, null, or a
\* rejection.
RefetchResults == {"list", Null, "reject"}

\* What executeToolServer resolves with: a result, or an { error } object.
ToolResults == {"result", "error"}

\* What chatCompletion gives: it throws (the fetch failed), or resolves with
\* [res] where res is null, a non-ok response or an ok response.
ChatCompletionResults == {"throw", Null, "not ok", "ok"}

\* What res.json() gives: the parsed body, or a rejection.
JsonResults == {"body", "SyntaxError"}

\* What reader.read() gives: { done: true }, a rejection, or a chunk with so
\* many non-blank lines.
ReadResults ==
    {[kind |-> "done", lines |-> 0], [kind |-> "throw", lines |-> 0]}
    \cup {[kind |-> "chunk", lines |-> n] : n \in 0..MaxLines}

\* n relayed lines.
Lines(n) == [i \in 1..n |-> "line"]

(***************************************************************************)
(* EventRouter: channelEventHandler                                        *)
(***************************************************************************)

\* Channels in one fetched list.
MaxChannels == 2

\* ['', null, 'group', 'dm']
TypePriority == <<"", Null, "group", "dm">>

\* list.indexOf(x): the first index (from 0) of x, -1 when x is not there.
IndexOf(list, x) ==
    IF \E i \in 1..Len(list) : list[i] = x
    THEN (CHOOSE i \in 1..Len(list) :
            list[i] = x /\ \A j \in 1..(i - 1) : list[j] # x) - 1
    ELSE 0 - 1

\* The channel summaries the server knows: a 'dm' with the newest message, two
\* groups, one channel of type '' and one of type null.
ChannelPool ==
    {[id |-> "a", type |-> "dm",    unread_count |-> 0, last_message_at |-> 9],
     [id |-> "b", type |-> "group", unread_count |-> 2, last_message_at |-> 1],
     [id |-> "c", type |-> "group", unread_count |-> 0, last_message_at |-> 5],
     [id |-> "d", type |-> "",      unread_count |-> 0, last_message_at |-> 3],
     [id |-> "e", type |-> Null,    unread_count |-> 0, last_message_at |-> 7]}

\* The lists getChannels may resolve with: channels of the pool, each at most
\* once, in any order.
FetchedLists ==
    {list \in UNION {[1..n -> ChannelPool] : n \in 0..MaxChannels} :
        \A i, j \in 1..Len(list) : i # j => list[i].id # list[j].id}

\* The comparator of the sort: indexOf(a.type) - indexOf(b.type)
Compare(a, b) == IndexOf(TypePriority, a.type) - IndexOf(TypePriority, b.type)

\* The place (from 1) Array.prototype.sort, which is stable, gives element i.
Rank(list, i) ==
    1 + Cardinality({j \in 1..Len(list) :
                        \/ Compare(list[j], list[i]) < 0
                        \/ Compare(list[j], list[i]) = 0 /\ j < i})

\* A sort that leaves the list as fetched.
SortNothing(list) == list

\* res.sort((a, b) => [...].indexOf(a.type) - [...].indexOf(b.type))
SortChannels(list) ==
    [k \in 1..Len(list) |->
        list[CHOOSE i \in 1..Len(list) : Rank(list, i) = k]]

\* The channel list the store holds at first: a list fetched and sorted.
InitialChannels ==
    SortChannels(<<[id |-> "a", type |-> "dm", unread_count |-> 0,
                    last_message_at |-> 9],
                   [id |-> "b", type |-> "group", unread_count |-> 2,
                    last_message_at |-> 1]>>)

\* The 'channel-events' frames: { channel_id, user: { id }, created_at,
\* data: { type } }; "me" is $user.id.
ChannelEvents ==
    [type : {"typing", "channel:created", "message", "message:update"},
     channel_id : {"a", "b", "z"}, user : {"me", "other"}, created_at : {50}]

NoChannelEvent ==
    [type |-> Null, channel_id |-> Null, user |-> Null, created_at |-> 0]

\* No channelEventHandler call yet.
IdleChannelHandler ==
    [pc |-> "idle", event |-> NoChannelEvent,
     visibilityState |-> "visible", onChannelPage |-> FALSE, gate |-> FALSE,
     channelId |-> "", before |-> <<>>, mapped |-> FALSE,
     getChannels |-> 0, fetch |-> "none", fetched |-> <<>>,
     published |-> FALSE, notify |-> NotRead, osNotification |-> 0,
     toast |-> 0, threw |-> FALSE]

RouterInit ==
    /\ handler = IdleHandler
    /\ handled = 0
    /\ channelHandler = IdleChannelHandler
    /\ chats = "cached"
    /\ tags = "cached"
    /\ channels = InitialChannels

\* The socket delivers an 'events' frame: chatEventHandler(event, cb) runs to
\* its first await, `await window.electronAPI.send(...)` when the host bridge
\* is there, `await tick()` otherwise.
EventsFrame(e, visibilityState, electronAPI) ==
    /\ handler.pc \in {"idle", "done"}
    /\ channelHandler.pc \in {"idle", "done"}
    /\ handled < MaxFrames
    /\ e.type = "execute:python" => Len(runs) < MaxRuns
    /\ handled' = handled + 1
    /\ handler' = [IdleHandler EXCEPT
                     !.event = e,
                     !.visibilityState = visibilityState,
                     !.isFocused = (visibilityState # "visible"),
                     !.bridge = IF electronAPI THEN "asked" ELSE "absent",
                     !.pc = IF electronAPI THEN "electronAPI" ELSE "tick"]
    /\ channelHandler' = IdleChannelHandler
    /\ UNCHANGED <<cacheVars, sandboxVars, socketVars, storageVars, tabVars,
                   sessionVars>>

\* The host bridge answers: if (res) isFocused = res.isFocused
ElectronAnswers(res) ==
    /\ handler.pc = "electronAPI"
    /\ handler' = [handler EXCEPT
                     !.bridge = res,
                     !.isFocused = IF res = "null" THEN @
                                   ELSE res = "isFocused:true",
                     !.pc = "tick"]
    /\ UNCHANGED <<handled, channelHandler, cacheVars, sandboxVars, socketVars,
                   storageVars, tabVars, sessionVars>>

\* `await tick()` resolves: the handler reads the stores and dispatches. An
\* execute:python command calls executePythonAsWorker(data.id, data.code, cb).
TickResolves(s) ==
    /\ handler.pc = "tick"
    /\ handler' = Dispatch(handler, s, token)
    /\ runs' = IF handler'.pythonRuns > handler.pythonRuns
               THEN Append(runs, NewRun(handler.event.cb))
               ELSE runs
    /\ UNCHANGED <<handled, channelHandler, cacheVars, socketVars, storageVars,
                   tabVars, sessionVars>>

\* `await getChatList(...)` or `await getAllTags(...)` settles:
\* chats.set(await getChatList(...)), tags.set(await getAllTags(...)). A
\* rejection leaves the handler through its promise.
RefetchResolves(res) ==
    /\ handler.pc \in {"getChatList", "getAllTags"}
    /\ handler' = [handler EXCEPT
                     !.chatsSet = IF handler.pc = "getChatList" /\ res # "reject"
                                  THEN @ + 1 ELSE @,
                     !.tagsSet = IF handler.pc = "getAllTags" /\ res # "reject"
                                 THEN @ + 1 ELSE @,
                     !.refetch = res,
                     !.cached = IF handler.pc = "getChatList" THEN chats ELSE tags,
                     !.threw = (res = "reject"),
                     !.pc = "done"]
    /\ chats' = IF handler.pc = "getChatList" /\ res # "reject" THEN res ELSE chats
    /\ tags' = IF handler.pc = "getAllTags" /\ res # "reject" THEN res ELSE tags
    /\ UNCHANGED <<handled, channelHandler, channels, sandboxVars, socketVars,
                   storageVars, tabVars, sessionVars>>

\* `await executeToolServer(...)` resolves: if (cb) cb(JSON.parse(JSON.stringify(res)))
ExecuteToolServerResolves(res) ==
    /\ handler.pc = "executeToolServer"
    /\ handler' = CallbackIfSet([handler EXCEPT !.pc = "done"], res)
    /\ UNCHANGED <<handled, channelHandler, cacheVars, sandboxVars, socketVars,
                   storageVars, tabVars, sessionVars>>

\* `await chatCompletion(...)` settles (lines 276-291).
ChatCompletionResolves(out) ==
    /\ handler.pc = "chatCompletion"
    /\ handler' =
         IF out = "throw" THEN Catch(handler, "error")
         ELSE IF out = Null THEN Finally(handler)
         ELSE IF out = "not ok" THEN [handler EXCEPT !.pc = "error json"]
         ELSE IF handler.event.stream THEN TryCb(handler, "status: true", "read")
         ELSE [handler EXCEPT !.pc = "json"]
    /\ UNCHANGED <<handled, channelHandler, cacheVars, sandboxVars, socketVars,
                   storageVars, tabVars, sessionVars>>

\* `await res.json()` settles: `throw await res.json()` of a non-ok response
\* throws either way, `cb(await res.json())` acknowledges with the body.
ResJsonResolves(out) ==
    /\ handler.pc \in {"error json", "json"}
    /\ handler' =
         IF handler.pc = "error json" \/ out # "body"
         THEN Catch(handler, out)
         ELSE IF handler.event.cb
         THEN Finally([handler EXCEPT !.acks = Append(@, out)])
         ELSE Catch(handler, "TypeError")
    /\ UNCHANGED <<handled, channelHandler, cacheVars, sandboxVars, socketVars,
                   storageVars, tabVars, sessionVars>>

\* `await reader.read()` settles (lines 283-288).
ReaderRead(r) ==
    /\ handler.pc = "read"
    /\ r.kind = "chunk" => handler.chunks < MaxChunks
    /\ handler' =
         IF r.kind = "done" THEN Finally(handler)
         ELSE IF r.kind = "throw" THEN Catch(handler, "error")
         ELSE [handler EXCEPT !.chunks = @ + 1,
                              !.frames = @ \o Lines(r.lines)]
    /\ UNCHANGED <<handled, channelHandler, cacheVars, sandboxVars, socketVars,
                   storageVars, tabVars, sessionVars>>

\* (!onChannelPage || isFocused) && event?.user?.id !== $user?.id
ChannelGated(onChannelPage, isFocused, author, userId) ==
    (~onChannelPage \/ isFocused) /\ author # userId

\* $channels.find((ch) => ch.id === event.channel_id)
KnownChannel(list, id) == \E k \in 1..Len(list) : list[k].id = id

\* A map that bumps the channel whatever the type of the event is.
BumpUnreadAnyType(list, event) ==
    [k \in 1..Len(list) |->
        IF list[k].id = event.channel_id
        THEN [list[k] EXCEPT !.unread_count = @ + 1,
                             !.last_message_at = event.created_at]
        ELSE list[k]]

\* $channels.map((ch) => ch.id === event.channel_id && type === 'message'
\*   ? { ...ch, unread_count: (ch.unread_count ?? 0) + 1,
\*       last_message_at: event.created_at } : ch)
BumpUnread(list, event) ==
    [k \in 1..Len(list) |->
        IF list[k].id = event.channel_id /\ event.type = "message"
        THEN [list[k] EXCEPT !.unread_count = @ + 1,
                             !.last_message_at = event.created_at]
        ELSE list[k]]

\* Lines 335-345: the OS notification and the toast of a 'message' event.
ChannelNotify(h, flag, enabled) ==
    IF h.event.type = "message"
    THEN [h EXCEPT
            !.notify = [read |-> TRUE, isLastActiveTab |-> flag,
                        notificationSoundAlways |-> FALSE,
                        notificationEnabled |-> enabled],
            !.osNotification = @ + OsNotifications(flag, enabled),
            !.toast = @ + 1,
            !.pc = "done"]
    ELSE [h EXCEPT !.pc = "done"]

\* What `await getChannels(...).catch(() => null)` is made from: a list, null,
\* or a rejection.
ChannelResults ==
    [kind : {"null", "reject"}, list : {<<>>}]
    \cup [kind : {"list"}, list : FetchedLists]

\* The socket delivers a 'channel-events' frame: channelEventHandler(event)
\* runs to its first await. A 'typing' frame returns at once, a
\* 'channel:created' frame calls getChannels, any other frame passes the gate
\* to `await tick()` or returns.
ChannelEventsFrame(e, visibilityState, onChannelPage) ==
    /\ handler.pc \in {"idle", "done"}
    /\ channelHandler.pc \in {"idle", "done"}
    /\ handled < MaxFrames
    /\ handled' = handled + 1
    /\ handler' = IdleHandler
    /\ channelHandler' =
         IF e.type = "typing"
         THEN [IdleChannelHandler EXCEPT !.event = e, !.pc = "done"]
         ELSE IF e.type = "channel:created"
         THEN [IdleChannelHandler EXCEPT !.event = e, !.before = channels,
                                         !.getChannels = 1,
                                         !.pc = "getChannels"]
         ELSE LET gate == ChannelGated(onChannelPage,
                                       visibilityState # "visible",
                                       e.user, "me")
              IN  [IdleChannelHandler EXCEPT
                     !.event = e, !.visibilityState = visibilityState,
                     !.onChannelPage = onChannelPage, !.gate = gate,
                     !.pc = IF gate THEN "tick" ELSE "done"]
    /\ UNCHANGED <<cacheVars, sandboxVars, socketVars, storageVars, tabVars,
                   sessionVars>>

\* `await tick()` resolves (lines 320-345): a channel of the list other than
\* $channelId is mapped in place and the handler goes on to the notification,
\* otherwise getChannels is called. $channels is a list here (the store is
\* taken to hold one from the start; this file never sets it to null).
ChannelTickResolves(channelId, flag, enabled) ==
    /\ channelHandler.pc = "tick"
    /\ LET e == channelHandler.event
           h == [channelHandler EXCEPT !.channelId = channelId,
                                       !.before = channels]
       IN  IF KnownChannel(channels, e.channel_id) /\ channelId # e.channel_id
           THEN /\ channels' = BumpUnread(channels, e)
                /\ channelHandler' =
                     ChannelNotify([h EXCEPT !.mapped = TRUE], flag, enabled)
           ELSE /\ channels' = channels
                /\ channelHandler' = [h EXCEPT !.getChannels = @ + 1,
                                               !.pc = "getChannels"]
    /\ UNCHANGED <<handler, handled, chats, tags, sandboxVars, socketVars,
                   storageVars, tabVars, sessionVars>>

\* `await getChannels(...).catch(() => null)` settles: if (res) the sorted
\* list is published; a 'channel:created' frame returns, any other goes on to
\* the notification.
GetChannelsResolves(res, flag, enabled) ==
    /\ channelHandler.pc = "getChannels"
    /\ channels' = IF res.kind = "list" THEN SortChannels(res.list)
                   ELSE channels
    /\ LET h == [channelHandler EXCEPT !.fetch = res.kind,
                                       !.fetched = res.list,
                                       !.published = (res.kind = "list")]
       IN  channelHandler' =
             IF h.event.type = "channel:created"
             THEN [h EXCEPT !.pc = "done"]
             ELSE ChannelNotify(h, flag, enabled)
    /\ UNCHANGED <<handler, handled, chats, tags, sandboxVars, socketVars,
                   storageVars, tabVars, sessionVars>>

(***************************************************************************)
(* Specifications                                                          *)
(***************************************************************************)

StorageInit == token \in BOOLEAN

InitAll ==
    /\ SandboxInit /\ SocketInit /\ StorageInit /\ TabInit /\ SessionInit
    /\ RouterInit

NextSandbox ==
    \/ \E cb \in BOOLEAN : ExecutePython(cb)
    \/ \E i \in DOMAIN runs : DeadlineExpires(i)
    \/ \E i \in DOMAIN runs, data \in WorkerData : WorkerMessage(i, data)
    \/ \E i \in DOMAIN runs : WorkerError(i)

SpecSandbox == InitAll /\ [][NextSandbox]_vars

NextSocket ==
    \/ SocketConnect
    \/ \E res \in VersionResults : VersionFetched(res)
    \/ PageReload
    \/ SocketDisconnect
    \/ \E id \in timers : HeartbeatTick(id)

SpecSocket == InitAll /\ [][NextSocket]_vars

NextTabs ==
    \/ \E t \in Tabs, vis \in BOOLEAN : OpenTab(t, vis)
    \/ \E t \in Tabs, exp \in Expiries, now \in Clock : VisibilityChange(t, exp, now)
    \/ \E t \in Tabs : DeliverActive(t)
    \/ \E t \in Tabs : SignOutRedirect(t)

SpecTabs == InitAll /\ [][NextTabs]_vars

NextSession ==
    \/ \E exp \in Expiries : SessionLoaded(exp)
    \/ \E now \in Clock : CheckTokenExpiry(now)
    \/ \E res \in SignOutResults : UserSignOutResolves(res)
    \/ PageLoaded

SpecSession == InitAll /\ [][NextSession]_vars

NextRouter ==
    \/ \E e \in Events, v \in {"visible", "hidden"}, electronAPI \in BOOLEAN :
          EventsFrame(e, v, electronAPI)
    \/ \E res \in BridgeAnswers : ElectronAnswers(res)
    \/ \E s \in Stores : TickResolves(s)
    \/ \E res \in RefetchResults : RefetchResolves(res)
    \/ \E res \in ToolResults : ExecuteToolServerResolves(res)
    \/ \E out \in ChatCompletionResults : ChatCompletionResolves(out)
    \/ \E out \in JsonResults : ResJsonResolves(out)
    \/ \E r \in ReadResults : ReaderRead(r)

SpecRouter == InitAll /\ [][NextRouter]_vars

\* The 'channel-events' handler of one tab.
NextChannels ==
    \/ \E e \in ChannelEvents, v \in {"visible", "hidden"},
          onChannelPage \in BOOLEAN :
          ChannelEventsFrame(e, v, onChannelPage)
    \/ \E channelId \in {"", "a", "b"}, flag \in BOOLEAN, enabled \in BOOLEAN :
          ChannelTickResolves(channelId, flag, enabled)
    \/ \E res \in ChannelResults, flag \in BOOLEAN, enabled \in BOOLEAN :
          GetChannelsResolves(res, flag, enabled)

SpecChannels == InitAll /\ [][NextChannels]_vars

\* Both handlers of one tab, its frames of either kind in any order.
NextEvents == NextRouter \/ NextChannels

SpecEvents == InitAll /\ [][NextEvents]_vars

(***************************************************************************)
(* Properties                                                              *)
(***************************************************************************)

\* C1: for every call with a non-null callback, the callback is invoked at
\* most once, and exactly once as soon as a result message, an error event or
\* the deadline has occurred.
CallbackExactlyOnce ==
    \A i \in DOMAIN runs :
        runs[i].cb =>
            /\ Len(runs[i].cbLog) <= 1
            /\ runs[i].first # "none" => Len(runs[i].cbLog) = 1

\* C2: at most one heartbeat interval timer is live, and a live timer is the
\* one heartbeatInterval refers to.
HeartbeatTimerNeverLeaks ==
    /\ Cardinality(timers) <= 1
    /\ \A id \in timers : id = heartbeatInterval

\* No 'active' broadcast is still undelivered.
Settled == \A t \in Tabs : inbox[t] = 0

ActiveTabs == {t \in Tabs : isLastActiveTab[t]}

\* C3: whenever no 'active' broadcast is undelivered, at most one tab has its
\* isLastActiveTab flag true.
AtMostOneActiveTabWhenSettled == Settled => Cardinality(ActiveTabs) <= 1

\* C3 witness: two tabs have claimed, every broadcast is delivered, and one
\* tab is active.
TwoClaimedOneActive ==
    /\ Settled
    /\ Len(claimOrder) = 2
    /\ Cardinality(ActiveTabs) = 1

\* C4 as claimed: once every broadcast is delivered, the tab that claimed last
\* has its flag true and every other tab has it false.
LastClaimWins ==
    (Settled /\ claimOrder # <<>>) =>
        /\ isLastActiveTab[claimOrder[Len(claimOrder)]]
        /\ \A t \in Tabs \ {claimOrder[Len(claimOrder)]} : ~isLastActiveTab[t]

\* C4 as amended: once every broadcast is delivered, no tab that has claimed,
\* other than the one that claimed last, has its flag true (the last claimant
\* itself may have lost the flag to an earlier claim's broadcast).
OnlyLastClaimantActive ==
    Settled =>
        \A i \in 1..(Len(claimOrder) - 1) : ~isLastActiveTab[claimOrder[i]]

\* C4 witness: tab 1 claimed, then tab 2; settled, tab 2 alone is active.
SecondClaimantHoldsFlag ==
    /\ Settled
    /\ claimOrder = <<1, 2>>
    /\ ActiveTabs = {2}

\* C6: a checkTokenExpiry call takes the sign-out branch exactly when the
\* session carries an expiry and now >= expiresAt - 60 (so at expiresAt =
\* now + 30 and not at now + 120), and the sign-out it performs clears the
\* session, removes the credential and sets the redirect.
SignOutIffWithinLead ==
    /\ lastCheck.made =>
          (lastCheck.signOut <=>
              (lastCheck.exp # NoExpiry /\ lastCheck.now >= lastCheck.exp - 60))
    /\ (lastCheck.made /\ lastCheck.exp = lastCheck.now + 30) => lastCheck.signOut
    /\ (lastCheck.made /\ lastCheck.exp = lastCheck.now + 120) => ~lastCheck.signOut
    /\ \A i \in DOMAIN signOutCalls :
          /\ signOutCalls[i].exp # NoExpiry
          /\ signOutCalls[i].now >= signOutCalls[i].exp - 60
    /\ page = "unloading" =>
          /\ ~user.set
          /\ ~token
          /\ href \in {"/auth", "/oauth/logout"}
          /\ signedOutBy.exp # NoExpiry
          /\ signedOutBy.now >= signedOutBy.exp - 60

\* C6 witness: a session expiring in 30 seconds has been signed out.
SignedOutThirtySecondsEarly ==
    /\ page = "unloading"
    /\ signedOutBy.exp = signedOutBy.now + 30
    /\ ~token

\* The handler has taken the request:chat:completion branch.
ProxyCommand ==
    handler.branch = "command" /\ handler.event.type = "request:chat:completion"

\* C5: for a processed request:chat:completion command, no frame on the relay
\* channel but the last is the {done:true} marker, and the command is over
\* exactly when the marker is the last frame: one marker, nothing after it,
\* on every path.
OneDoneMarkerLast ==
    ProxyCommand =>
        /\ \A i \in 1..(Len(handler.frames) - 1) :
              handler.frames[i] # DoneMarker
        /\ handler.pc = "done" <=>
              /\ handler.frames # <<>>
              /\ handler.frames[Len(handler.frames)] = DoneMarker

\* C5 witness: a streaming command acknowledged, one line relayed, the stream
\* threw, and the marker follows the line.
MarkerAfterMidStreamThrow ==
    /\ ProxyCommand
    /\ handler.event.stream
    /\ handler.acks = <<"status: true", "error">>
    /\ handler.frames = <<"line", DoneMarker>>

\* C7: a chat:completion event whose done is false or absent has no
\* notification effect: no sound, no OS notification, no toast.
NotDoneNeverNotifies ==
    (handler.event.type = "chat:completion" /\ handler.event.done # "true") =>
        /\ handler.sound = 0
        /\ handler.osNotification = 0
        /\ handler.toast = 0

\* C7 witness: a chat:completion event with done = false, of another chat
\* than the open one and arrived in a hidden tab, has been handled through
\* the direct-event branch.
NotDoneHandledUnderOpenGate ==
    /\ handler.pc = "done"
    /\ handler.event.type = "chat:completion"
    /\ handler.event.done = "false"
    /\ handler.branch = "direct"
    /\ handler.event.chat_id # handler.chatId
    /\ handler.visibilityState = "hidden"

\* executeTool was called with a URL that no configured server has.
UnknownToolServer ==
    /\ handler.toolCalls = 1
    /\ \A t \in handler.toolServers : t.url # handler.event.url

\* C8: executeTool with a server URL that matches no configured tool server
\* forwards nothing to executeToolServer, does not throw, and calls the
\* callback once, with {error: 'Tool Server Not Found'}.
UnknownToolServerNotFound ==
    UnknownToolServer =>
        /\ handler.forwarded = 0
        /\ ~handler.threw
        /\ handler.pc = "done"
        /\ handler.event.cb => handler.acks = <<ToolServerNotFound>>

\* C8 witness: a tool server is configured, the frame names another URL, and
\* the callback got the error.
UnknownUrlAnswered ==
    /\ UnknownToolServer
    /\ handler.toolServers # {}
    /\ handler.event.url = "http://x"
    /\ handler.acks = <<ToolServerNotFound>>

\* C9 as claimed: once the handler has dispatched a frame whose session id is
\* this connection's socket id, an execute:python frame has been delegated to
\* executePythonAsWorker and an execute:tool frame to executeTool, whatever
\* the chat ids, the temporary-chat setting and the visibility are.
OwnSessionFramesAreCommands ==
    (handler.branch # "none" /\ handler.event.session_id = SocketId) =>
        /\ handler.event.type = "execute:python" =>
              handler.pythonRuns = 1 /\ Len(runs) = 1
        /\ handler.event.type = "execute:tool" => handler.toolCalls = 1

\* Whether a handled direct event was applied: the toast of a chat:completion
\* with done = true, the re-fetch of chat:title and chat:tags.
DirectEventHandled ==
    /\ handler.branch # "none"
    /\ \/ handler.event.type = "chat:completion" /\ handler.event.done = "true"
       \/ handler.event.type \in {"chat:title", "chat:tags"}

Applied ==
    \/ handler.event.type = "chat:completion" /\ handler.toast = 1
    \/ handler.event.type = "chat:title" /\ handler.getChatList = 1
    \/ handler.event.type = "chat:tags" /\ handler.getAllTags = 1

\* C10 as claimed: a direct event is applied exactly when its chat id differs
\* from the open chat id or the tab was not visible, whatever else holds.
AppliedIffChatDiffersOrHidden ==
    DirectEventHandled =>
        (Applied <=> (\/ handler.event.chat_id # handler.chatId
                      \/ handler.visibilityState # "visible"))

\* The handler's focus test: the host bridge's isFocused answer when there is
\* a host bridge and it answers, otherwise that the tab was not visible when
\* the frame arrived.
FocusTest ==
    IF handler.bridge \in {"isFocused:true", "isFocused:false"}
    THEN handler.bridge = "isFocused:true"
    ELSE handler.visibilityState # "visible"

\* C10 as amended: a direct event is applied exactly when its chat id differs
\* from the open chat id while temporary chat is off, or the focus test is
\* true.
AppliedIffGated ==
    DirectEventHandled =>
        (Applied <=> (\/ /\ handler.event.chat_id # handler.chatId
                         /\ ~handler.temporaryChatEnabled
                      \/ FocusTest))

\* C10 witness: in a visible tab without host bridge, a chat:completion with
\* done = true of another chat than the open one raised the toast.
ToastForOtherChat ==
    /\ handler.event.type = "chat:completion"
    /\ handler.event.done = "true"
    /\ handler.bridge = "absent"
    /\ handler.visibilityState = "visible"
    /\ handler.event.chat_id # handler.chatId
    /\ ~handler.temporaryChatEnabled
    /\ handler.toast = 1

\* C12 as claimed: when a re-fetch the router started rejects or yields null,
\* the handler does not throw and the store the re-fetch is for (chats on
\* chat:title, tags on chat:tags, channels on channel events) is as it was.
RefetchFailureSwallowed ==
    /\ handler.refetch \in {Null, "reject"} =>
          /\ ~handler.threw
          /\ handler.event.type = "chat:title" => chats = handler.cached
          /\ handler.event.type = "chat:tags" => tags = handler.cached
    /\ channelHandler.fetch \in {"null", "reject"} =>
          /\ ~channelHandler.threw
          /\ channels = channelHandler.before

\* A channel event of another type than typing and channel:created has
\* passed the gate and the handler has run on from `await tick()`.
ChannelEventApplied ==
    channelHandler.gate /\ channelHandler.pc # "tick"

\* The channel list is the list before the event with the event's channel
\* bumped: unread_count one more, last_message_at the event's created_at,
\* everything else, the length and the order as they were.
ChannelBumped ==
    /\ Len(channels) = Len(channelHandler.before)
    /\ \A k \in 1..Len(channels) :
          IF channelHandler.before[k].id = channelHandler.event.channel_id
          THEN channels[k] =
                 [channelHandler.before[k] EXCEPT
                    !.unread_count = channelHandler.before[k].unread_count + 1,
                    !.last_message_at = channelHandler.event.created_at]
          ELSE channels[k] = channelHandler.before[k]

\* C11 as claimed: for a gated channel event, a channel of the local list is
\* bumped in place with no re-fetch, whatever the type; for a channel that is
\* not in the list a re-fetch is made.
KnownChannelBumpedElseRefetch ==
    ChannelEventApplied =>
        IF KnownChannel(channelHandler.before, channelHandler.event.channel_id)
        THEN ChannelBumped /\ channelHandler.getChannels = 0
        ELSE channelHandler.getChannels = 1

\* C11 as amended: for a gated channel event whose channel is in the local
\* list and is not the channel $channelId names, a 'message' event bumps the
\* channel in place, an event of another type leaves the list as it was, and
\* no re-fetch is made; for a channel that is not in the list, or that
\* $channelId names, one re-fetch is made, and the list is the fetched list
\* sorted once the fetch gave one, the list as it was otherwise.
MessageBumpsOtherChannelElseRefetch ==
    ChannelEventApplied =>
        IF /\ KnownChannel(channelHandler.before,
                           channelHandler.event.channel_id)
           /\ channelHandler.channelId # channelHandler.event.channel_id
        THEN /\ channelHandler.getChannels = 0
             /\ IF channelHandler.event.type = "message"
                THEN ChannelBumped
                ELSE channels = channelHandler.before
        ELSE /\ channelHandler.getChannels = 1
             /\ channelHandler.fetch # "list" => channels = channelHandler.before
             /\ channelHandler.fetch = "list" =>
                   /\ Len(channels) = Len(channelHandler.fetched)
                   /\ \A k \in 1..Len(channels) :
                         \E i \in 1..Len(channelHandler.fetched) :
                            channels[k] = channelHandler.fetched[i]

\* C11 witness: a message for channel "b", which is in the list with two
\* unread messages, arrived while another page was shown; "b" has three now
\* and the time of the event, "a" is as it was, no re-fetch was made.
UnreadOfKnownChannelBumped ==
    /\ ChannelEventApplied
    /\ channelHandler.event.type = "message"
    /\ channelHandler.event.channel_id = "b"
    /\ ~channelHandler.onChannelPage
    /\ channelHandler.getChannels = 0
    /\ Len(channels) = 2
    /\ channels[1].id = "b" /\ channels[1].unread_count = 3
    /\ channels[1].last_message_at = 50
    /\ channels[2] = channelHandler.before[2]

\* The cached version or deployment id the last 'connect' handler read was
\* set and differs from what getVersion gave it.
CachedDiffers ==
    \/ /\ lastConnect.WEBUI_VERSION # Null
       /\ lastConnect.version # lastConnect.WEBUI_VERSION
    \/ /\ lastConnect.WEBUI_DEPLOYMENT_ID # Null
       /\ lastConnect.deployment_id # lastConnect.WEBUI_DEPLOYMENT_ID

\* C13 (as stated): a connect event leads to the forced reload if and only if
\* the cached version is set and differs from the fetched version, or the
\* cached deployment id is set and differs from the fetched deployment id.
ReloadIffCachedDiffers ==
    lastConnect.made => (lastConnect.reload <=> CachedDiffers)

\* C13 (amended): a connect event leads to the forced reload if and only if
\* getVersion gave a version or a deployment id, and the cached version is
\* set and differs from the fetched one or the cached deployment id is set
\* and differs from the fetched one; with nothing cached there is no reload.
ReloadIffFetchedAndCachedDiffers ==
    lastConnect.made =>
        /\ lastConnect.reload <=>
             /\ lastConnect.version # Null \/ lastConnect.deployment_id # Null
             /\ CachedDiffers
        /\ (lastConnect.WEBUI_VERSION = Null
              /\ lastConnect.WEBUI_DEPLOYMENT_ID = Null) => ~lastConnect.reload
        /\ lastConnect.reload => reloadPending \/ reloads > 0

\* C13 witness: a later connect fetched a version other than the cached one
\* and the page reloaded.
ReloadedOnNewVersion ==
    /\ lastConnect.made
    /\ lastConnect.WEBUI_VERSION # Null
    /\ lastConnect.version # Null
    /\ lastConnect.version # lastConnect.WEBUI_VERSION
    /\ lastConnect.reload
    /\ reloads > 0

NotifiedAsGated(h) ==
    IF h.notify.read
    THEN /\ h.osNotification =
              IF h.notify.isLastActiveTab /\ h.notify.notificationEnabled
              THEN 1 ELSE 0
         /\ h.toast = 1
    ELSE h.osNotification = 0 /\ h.toast = 0

\* C15: a chat:completion or channel message event raises an OS notification
\* only when this tab's active-tab flag is true and notifications are
\* enabled; when either is false there is no OS notification and the in-app
\* toast of the event is still shown.
OsNotificationOnlyActiveTabAndEnabled ==
    /\ NotifiedAsGated(handler)
    /\ NotifiedAsGated(channelHandler)

\* C15 witness: a channel message notified in a tab that is not the active
\* one, with notifications enabled: the toast and no OS notification.
ToastWithoutOsNotification ==
    /\ channelHandler.event.type = "message"
    /\ channelHandler.notify.read
    /\ ~channelHandler.notify.isLastActiveTab
    /\ channelHandler.notify.notificationEnabled
    /\ channelHandler.osNotification = 0
    /\ channelHandler.toast = 1

\* The index of a channel type in ['', null, 'group', 'dm'], -1 for a type
\* that is not in it.
PriorityIndex(type) ==
    CASE type = "" -> 0
      [] type = Null -> 1
      [] type = "group" -> 2
      [] type = "dm" -> 3
      [] OTHER -> 0 - 1

\* The place of the channel with this id in a list (ids are unique in it).
PlaceOf(list, id) == CHOOSE i \in 1..Len(list) : list[i].id = id

\* C16: after a channel-list re-fetch that yielded a list, the published
\* list is a permutation of the fetched list in ascending order of the index
\* of the channel type in ['', null, 'group', 'dm'], channels of the same
\* index keep their fetch order, and no 'dm' channel precedes a 'group'
\* channel.
PublishedSortedByTypePriority ==
    channelHandler.published =>
        LET fetched == channelHandler.fetched
        IN  /\ Len(channels) = Len(fetched)
            /\ \A i \in 1..Len(fetched) :
                 \E j \in 1..Len(channels) : channels[j] = fetched[i]
            /\ \A i, j \in 1..Len(channels) :
                 i < j =>
                   /\ PriorityIndex(channels[i].type)
                        <= PriorityIndex(channels[j].type)
                   /\ PriorityIndex(channels[i].type)
                        = PriorityIndex(channels[j].type)
                      => PlaceOf(fetched, channels[i].id)
                           < PlaceOf(fetched, channels[j].id)
                   /\ ~(channels[i].type = "dm" /\ channels[j].type = "group")

\* C16 witness: a re-fetch that yielded the 'dm' channel with the newest
\* message ahead of a 'group' channel published the group first.
GroupPublishedBeforeNewerDm ==
    /\ channelHandler.published
    /\ Len(channelHandler.fetched) = 2
    /\ channelHandler.fetched[1].type = "dm"
    /\ channelHandler.fetched[2].type = "group"
    /\ channelHandler.fetched[1].last_message_at
         > channelHandler.fetched[2].last_message_at
    /\ channels = <<channelHandler.fetched[2], channelHandler.fetched[1]>>

\* C17: sandbox outcomes are first-wins. When the deadline expired before
\* any worker result or error, the worker is terminated and the callback
\* payload has stderr = "Execution Time Limit Exceeded". When a result or an
\* error came first, the deadline expiry, if it happens, calls no callback,
\* does not terminate the worker and leaves the delivered values as they
\* were: every callback call is a worker event's, and the last payload is
\* what the run holds.
SandboxFirstWins ==
    \A i \in 1..Len(runs) :
        LET r == runs[i]
        IN  /\ r.first = "deadline" =>
                 /\ r.deadline = "fired"
                 /\ r.pyodideWorker = "terminated"
                 /\ r.stderr = TimeLimitExceeded
                 /\ r.cb => /\ Len(r.cbLog) = 1
                            /\ r.cbLog[1].stderr = TimeLimitExceeded
            /\ r.first \in {"message", "error"} =>
                 /\ r.pyodideWorker = "running"
                 /\ r.stderr # TimeLimitExceeded
                 /\ Len(r.cbLog) = IF r.cb THEN r.posted ELSE 0
                 /\ \A k \in 1..Len(r.cbLog) :
                      r.cbLog[k].stderr # TimeLimitExceeded
                 /\ r.cb => r.cbLog[Len(r.cbLog)] = Payload(r)

\* C17 witness: a result was delivered and the deadline expired afterwards.
DeadlineAfterResult ==
    \E i \in 1..Len(runs) :
        /\ runs[i].cb
        /\ runs[i].first = "message"
        /\ runs[i].deadline = "fired"
        /\ Len(runs[i].cbLog) = 1

\* C18: after the first terminal outcome of an invocation (the first result,
\* the first worker error or the deadline expiry) the worker created for the
\* invocation is no longer alive.
WorkerDestroyedOnFirstOutcome ==
    \A i \in 1..Len(runs) :
        runs[i].first # "none" => runs[i].pyodideWorker = "terminated"

\* C19: for every processed request:chat:completion command the
\* acknowledgment callback is invoked exactly once.
ProxyAckExactlyOnce ==
    (ProxyCommand /\ handler.event.cb /\ handler.pc = "done") =>
        Len(handler.acks) = 1

\* C20: a frame whose session id is not this connection's socket id causes
\* no command side effect: no sandbox worker, no tool-server call, no proxied
\* completion, no frame emitted on its channel and no acknowledgment.
ForeignSessionNoCommand ==
    (handler.branch # "none" /\ handler.event.session_id # SocketId) =>
        /\ handler.branch # "command"
        /\ handler.pythonRuns = 0
        /\ handler.toolCalls = 0
        /\ handler.forwarded = 0
        /\ handler.proxied = 0
        /\ handler.acks = <<>>
        /\ handler.frames = <<>>

\* C20 witness: a request:chat:completion frame of another session, with a
\* callback, arrived with the notification gate closed and was ignored.
ForeignProxyFrameIgnored ==
    /\ handler.event.type = "request:chat:completion"
    /\ handler.event.session_id # SocketId
    /\ handler.event.cb
    /\ handler.branch = "ignored"
    /\ handler.pc = "done"

============================================================================
